---- MODULE Spec2Model ----
(***************************************************************************)
(* Model of decision_engine.py: the rule-based fraud-risk scorer           *)
(* (assess_row and its helpers), the environment overrides applied to      *)
(* DEFAULT_CONFIG when the module is imported, and the batch runner run(). *)
(*                                                                         *)
(* A cell of a row is a tagged value: absent (the row has no such key, so  *)
(* row.get returns its default), an integer, or a text.  Amounts are whole *)
(* numbers of MXN; float(amount) of a whole number is that number, printed *)
(* with a trailing ".0".                                                   *)
(***************************************************************************)
EXTENDS Integers, Sequences, FiniteSets, TLC

VARIABLES env, DEFAULT_CONFIG, config, table, out, row, result, pc

vars == <<env, DEFAULT_CONFIG, config, table, out, row, result, pc>>

DECISION_ACCEPTED == "ACCEPTED"
DECISION_IN_REVIEW == "IN_REVIEW"
DECISION_REJECTED == "REJECTED"

(* ------------------------------ cells --------------------------------- *)

Absent == [t |-> "absent", i |-> 0, s |-> ""]
IntCell(n) == [t |-> "int", i |-> n, s |-> ""]
StrCell(x) == [t |-> "str", i |-> 0, s |-> x]

\* row.get(field, default)
Get(r, field, default) == IF r[field].t = "absent" THEN default ELSE r[field]

\* str(value)
Str(c) == IF c.t = "str" THEN c.s ELSE ToString(c.i)

\* str.lower() and str.upper(), on the vocabulary of the model's inputs
Lower(s) ==
  CASE s = "HIGH" -> "high"
    [] s = "Medium" -> "medium"
    [] s = "TRUSTED" -> "trusted"
    [] s = "Recurrent" -> "recurrent"
    [] s = "NEW" -> "new"
    [] s = "Digital" -> "digital"
    [] s = "PHYSICAL" -> "physical"
    [] s = "MX" -> "mx"
    [] s = "US" -> "us"
    [] OTHER -> s

Upper(s) ==
  CASE s = "mx" -> "MX"
    [] s = "us" -> "US"
    [] s = "abc" -> "ABC"
    [] OTHER -> s

(* ------------------------- int() of a text ---------------------------- *)

DigitVal(ch) ==
  CASE ch = "0" -> 0 [] ch = "1" -> 1 [] ch = "2" -> 2 [] ch = "3" -> 3
    [] ch = "4" -> 4 [] ch = "5" -> 5 [] ch = "6" -> 6 [] ch = "7" -> 7
    [] ch = "8" -> 8 [] ch = "9" -> 9 [] OTHER -> -1

RECURSIVE Strip(_)
Strip(s) ==
  IF Len(s) > 0 /\ SubSeq(s, 1, 1) = " " THEN Strip(SubSeq(s, 2, Len(s)))
  ELSE IF Len(s) > 0 /\ SubSeq(s, Len(s), Len(s)) = " " THEN Strip(SubSeq(s, 1, Len(s) - 1))
  ELSE s

IsDigits(s) == Len(s) > 0 /\ \A k \in 1..Len(s) : DigitVal(SubSeq(s, k, k)) >= 0

RECURSIVE DigitsVal(_)
DigitsVal(s) ==
  IF Len(s) = 0 THEN 0
  ELSE 10 * DigitsVal(SubSeq(s, 1, Len(s) - 1)) + DigitVal(SubSeq(s, Len(s), Len(s)))

HasSign(s) == Len(s) > 0 /\ SubSeq(s, 1, 1) \in {"+", "-"}
Unsigned(s) == IF HasSign(s) THEN SubSeq(s, 2, Len(s)) ELSE s

\* int(text) raises ValueError unless the text is an optionally signed run of digits
IntTextOk(s) == IsDigits(Unsigned(Strip(s)))
IntOfText(s) ==
  LET b == Strip(s)
  IN IF HasSign(b) /\ SubSeq(b, 1, 1) = "-" THEN 0 - DigitsVal(Unsigned(b)) ELSE DigitsVal(Unsigned(b))

\* int(val) / float(val) of a cell: whether it returns, and what
IntOk(c) == c.t = "int" \/ (c.t = "str" /\ IntTextOk(c.s))
IntOf(c) == IF c.t = "int" THEN c.i ELSE IntOfText(c.s)

(* ---------------------------- helpers --------------------------------- *)

is_night(hour) == hour >= 22 \/ hour <= 5

safe_int(val, default) == IF IntOk(val) THEN IntOf(val) ELSE default

safe_float(val, default) == IF IntOk(val) THEN IntOf(val) ELSE default

\* the defaults of safe_int's and safe_float's second parameter, which no
\* caller overrides
SafeIntDefault == 0
SafeFloatDefault == 0

\* f"{amount}" of a float holding a whole number
FloatStr(a) == ToString(a) \o ".0"

\* dict.get(key, default)
DictGet(d, key, default) == IF key \in DOMAIN d THEN d[key] ELSE default

\* high_amount with a strict comparison
high_amount_Strict(amount, product_type, thresholds) ==
  amount > DictGet(thresholds, product_type, thresholds["_default"])

high_amount(amount, product_type, thresholds) ==
  amount >= DictGet(thresholds, product_type, thresholds["_default"])

(* ------------------------- configuration ------------------------------ *)

\* DEFAULT_CONFIG with the medium and high device weights exchanged
DefaultConfig_DeviceWeightsSwapped ==
  [ amount_thresholds |->
      ("digital" :> 2500) @@ ("physical" :> 6000) @@ ("subscription" :> 1500) @@ ("_default" :> 4000),
    latency_ms_extreme |-> 2500,
    chargeback_hard_block |-> 2,
    score_weights |->
      [ ip_risk |-> [low |-> 0, medium |-> 2, high |-> 4],
        email_risk |-> [low |-> 0, medium |-> 1, high |-> 3, new_domain |-> 2],
        device_fingerprint_risk |-> [low |-> 0, medium |-> 4, high |-> 2],
        user_reputation |-> [trusted |-> -2, recurrent |-> -1, new |-> 0, high_risk |-> 4],
        night_hour |-> 1,
        geo_mismatch |-> 2,
        high_amount |-> 2,
        latency_extreme |-> 2,
        new_user_high_amount |-> 2 ],
    score_to_decision |-> [reject_at |-> 10, review_at |-> 4] ]

DefaultConfig ==
  [ amount_thresholds |->
      ("digital" :> 2500) @@ ("physical" :> 6000) @@ ("subscription" :> 1500) @@ ("_default" :> 4000),
    latency_ms_extreme |-> 2500,
    chargeback_hard_block |-> 2,
    score_weights |->
      [ ip_risk |-> [low |-> 0, medium |-> 2, high |-> 4],
        email_risk |-> [low |-> 0, medium |-> 1, high |-> 3, new_domain |-> 2],
        device_fingerprint_risk |-> [low |-> 0, medium |-> 2, high |-> 4],
        user_reputation |-> [trusted |-> -2, recurrent |-> -1, new |-> 0, high_risk |-> 4],
        night_hour |-> 1,
        geo_mismatch |-> 2,
        high_amount |-> 2,
        latency_extreme |-> 2,
        new_user_high_amount |-> 2 ],
    score_to_decision |-> [reject_at |-> 10, review_at |-> 4] ]

(* ----------------------------- the rules ------------------------------ *)

\* the hard-block test comparing ip_risk without lower-casing it
HardBlockHit_CaseSensitive(r, cfg) ==
  /\ safe_int(Get(r, "chargeback_count", IntCell(0)), SafeIntDefault) >= cfg.chargeback_hard_block
  /\ Str(Get(r, "ip_risk", StrCell("low"))) = "high"

HardBlockHit(r, cfg) ==
  /\ safe_int(Get(r, "chargeback_count", IntCell(0)), SafeIntDefault) >= cfg.chargeback_hard_block
  /\ Lower(Str(Get(r, "ip_risk", StrCell("low")))) = "high"

\* ";".join(reasons)
RECURSIVE Join(_)
Join(reasons) ==
  IF Len(reasons) = 0 THEN ""
  ELSE IF Len(reasons) = 1 THEN reasons[1]
  ELSE reasons[1] \o ";" \o Join(Tail(reasons))

HardBlockReasons == <<"hard_block:chargebacks>=2+ip_high">>

\* the result returned when the hard block fires (only used when HardBlockHit)
_check_chargeback_hard_block(r, cfg) ==
  [decision |-> DECISION_REJECTED, risk_score |-> 100, reasons |-> Join(HardBlockReasons)]

CategoricalOne(r, field, mapping) ==
  LET val == Lower(Str(Get(r, field, StrCell("low"))))
      add == DictGet(mapping, val, 0)
  IN [score |-> add,
      reasons |-> IF add # 0 THEN <<field \o ":" \o val \o "(+" \o ToString(add) \o ")">> ELSE <<>>]

_categorical_score_and_reasons(r, cfg) ==
  LET a == CategoricalOne(r, "ip_risk", cfg.score_weights.ip_risk)
      b == CategoricalOne(r, "email_risk", cfg.score_weights.email_risk)
      c == CategoricalOne(r, "device_fingerprint_risk", cfg.score_weights.device_fingerprint_risk)
  IN [score |-> a.score + b.score + c.score, reasons |-> a.reasons \o b.reasons \o c.reasons]

_reputation_score(r, cfg) ==
  LET rep == Lower(Str(Get(r, "user_reputation", StrCell("new"))))
      rep_add == DictGet(cfg.score_weights.user_reputation, rep, 0)
  IN [rep |-> rep, add |-> rep_add,
      reasons |-> IF rep_add # 0
                  THEN <<"user_reputation:" \o rep \o "(" \o (IF rep_add >= 0 THEN "+" ELSE "")
                          \o ToString(rep_add) \o ")">>
                  ELSE <<>>]

_night_score(r, cfg) ==
  LET hr == safe_int(Get(r, "hour", IntCell(12)), SafeIntDefault)
      add == cfg.score_weights.night_hour
  IN IF is_night(hr)
     THEN [add |-> add, reasons |-> <<"night_hour:" \o ToString(hr) \o "(+" \o ToString(add) \o ")">>]
     ELSE [add |-> 0, reasons |-> <<>>]

_geo_mismatch_score(r, cfg) ==
  LET bin_c == Upper(Str(Get(r, "bin_country", StrCell(""))))
      ip_c == Upper(Str(Get(r, "ip_country", StrCell(""))))
      add == cfg.score_weights.geo_mismatch
  IN IF bin_c # "" /\ ip_c # "" /\ bin_c # ip_c
     THEN [add |-> add,
           reasons |-> <<"geo_mismatch:" \o bin_c \o "!=" \o ip_c \o "(+" \o ToString(add) \o ")">>]
     ELSE [add |-> 0, reasons |-> <<>>]

_amount_score(r, cfg, rep) ==
  LET amount == safe_float(Get(r, "amount_mxn", IntCell(0)), SafeFloatDefault)
      ptype == Lower(Str(Get(r, "product_type", StrCell("_default"))))
      add == cfg.score_weights.high_amount
      add2 == cfg.score_weights.new_user_high_amount
      first == "high_amount:" \o ptype \o ":" \o FloatStr(amount) \o "(+" \o ToString(add) \o ")"
  IN IF high_amount(amount, ptype, cfg.amount_thresholds)
     THEN IF rep = "new"
          THEN [add |-> add + add2,
                reasons |-> <<first, "new_user_high_amount(+" \o ToString(add2) \o ")">>]
          ELSE [add |-> add, reasons |-> <<first>>]
     ELSE [add |-> 0, reasons |-> <<>>]

_latency_score(r, cfg) ==
  LET lat == safe_int(Get(r, "latency_ms", IntCell(0)), SafeIntDefault)
      add == cfg.score_weights.latency_extreme
  IN IF lat >= cfg.latency_ms_extreme
     THEN [add |-> add,
           reasons |-> <<"latency_extreme:" \o ToString(lat) \o "ms(+" \o ToString(add) \o ")">>]
     ELSE [add |-> 0, reasons |-> <<>>]

\* the frequency buffer without its customer_txn_30d condition
_apply_frequency_buffer_NoFrequency(r, rep, score) ==
  IF rep \in {"recurrent", "trusted"} /\ score > 0
  THEN [add |-> -1, reasons |-> <<"frequency_buffer(-1)">>]
  ELSE [add |-> 0, reasons |-> <<>>]

\* the frequency buffer without its positive-score condition
_apply_frequency_buffer_AnyScore(r, rep, score) ==
  LET freq == safe_int(Get(r, "customer_txn_30d", IntCell(0)), SafeIntDefault)
  IN IF rep \in {"recurrent", "trusted"} /\ freq >= 3
     THEN [add |-> -1, reasons |-> <<"frequency_buffer(-1)">>]
     ELSE [add |-> 0, reasons |-> <<>>]

_apply_frequency_buffer(r, rep, score) ==
  LET freq == safe_int(Get(r, "customer_txn_30d", IntCell(0)), SafeIntDefault)
  IN IF rep \in {"recurrent", "trusted"} /\ freq >= 3 /\ score > 0
     THEN [add |-> -1, reasons |-> <<"frequency_buffer(-1)">>]
     ELSE [add |-> 0, reasons |-> <<>>]

_map_score_to_decision(score, cfg) ==
  IF score > cfg.score_to_decision.reject_at THEN DECISION_REJECTED
  ELSE IF score >= cfg.score_to_decision.review_at THEN DECISION_IN_REVIEW
  ELSE DECISION_ACCEPTED

\* the running score and reasons of assess_row after the latency step, before
\* the frequency buffer
PreBuffer(r, cfg) ==
  LET cat == _categorical_score_and_reasons(r, cfg)
      rp == _reputation_score(r, cfg)
      night == _night_score(r, cfg)
      geo == _geo_mismatch_score(r, cfg)
      amt == _amount_score(r, cfg, rp.rep)
      lat == _latency_score(r, cfg)
  IN [rep |-> rp.rep,
      score |-> cat.score + rp.add + night.add + geo.add + amt.add + lat.add,
      reasons |-> cat.reasons \o rp.reasons \o night.reasons \o geo.reasons \o amt.reasons
                    \o lat.reasons]

assess_row(r, cfg) ==
  IF HardBlockHit(r, cfg) THEN _check_chargeback_hard_block(r, cfg)
  ELSE LET pre == PreBuffer(r, cfg)
           fb == _apply_frequency_buffer(r, pre.rep, pre.score)
           score == pre.score + fb.add
       IN [decision |-> _map_score_to_decision(score, cfg),
           risk_score |-> score,
           reasons |-> Join(pre.reasons \o fb.reasons)]

(* ------------------------- loading the module ------------------------- *)

\* os.getenv(name): None when the variable is unset, else its text
Unset == [set |-> FALSE, s |-> ""]
EnvText(x) == [set |-> TRUE, s |-> x]

\* the try block that applies REJECT_AT and then REVIEW_AT to DEFAULT_CONFIG;
\* the first int() that raises ends the block, keeping what was assigned before
LoadOverrides(cfg, e) ==
  IF e.REJECT_AT.set /\ ~IntTextOk(e.REJECT_AT.s) THEN cfg
  ELSE LET c1 == IF e.REJECT_AT.set
                 THEN [cfg EXCEPT !.score_to_decision.reject_at = IntOfText(e.REJECT_AT.s)]
                 ELSE cfg
       IN IF e.REVIEW_AT.set /\ ~IntTextOk(e.REVIEW_AT.s) THEN c1
          ELSE IF e.REVIEW_AT.set
               THEN [c1 EXCEPT !.score_to_decision.review_at = IntOfText(e.REVIEW_AT.s)]
               ELSE c1

(* --------------------------- the batch runner ------------------------- *)

Fields ==
  {"chargeback_count", "ip_risk", "email_risk", "device_fingerprint_risk", "user_reputation",
   "hour", "bin_country", "ip_country", "amount_mxn", "product_type", "latency_ms",
   "customer_txn_30d"}

ResultColumns == {"decision", "risk_score", "reasons"}

\* the columns a frame of the model may carry: the scorer's fields, one
\* pass-through column, and the three result columns
Columns == Fields \cup {"note"} \cup ResultColumns

\* config or DEFAULT_CONFIG
NoConfig == [given |-> FALSE, cfg |-> DefaultConfig]
RunConfig(arg, dflt) == IF arg.given THEN arg.cfg ELSE dflt

\* the loop collecting the results newest first
RECURSIVE RunLoop_Prepend(_, _, _, _)
RunLoop_Prepend(df, cfg, k, results) ==
  IF k > Len(df) THEN results
  ELSE RunLoop_Prepend(df, cfg, k + 1, <<assess_row(df[k], cfg)>> \o results)

\* for _, row in df.iterrows(): results.append(assess_row(row, cfg))
RECURSIVE RunLoop(_, _, _, _)
RunLoop(df, cfg, k, results) ==
  IF k > Len(df) THEN results
  ELSE RunLoop(df, cfg, k + 1, Append(results, assess_row(df[k], cfg)))

\* out = df.copy(); out[col] = [r[col] for r in results], for the three columns
Assemble(df, results) ==
  [k \in 1..Len(df) |->
     [df[k] EXCEPT !["decision"] = StrCell(results[k].decision),
                   !["risk_score"] = IntCell(results[k].risk_score),
                   !["reasons"] = StrCell(results[k].reasons)]]

run(df, arg, dflt) ==
  LET cfg == RunConfig(arg, dflt)
  IN Assemble(df, RunLoop(df, cfg, 1, <<>>))

(* ------------------------------ inputs -------------------------------- *)

Bad == StrCell("abc")

MkRow(cb, ip, em, dev, rep, hr, bin, ipc, amt, pt, lat, txn, note, dec) ==
  [c \in Columns |->
     CASE c = "chargeback_count" -> cb
       [] c = "ip_risk" -> ip
       [] c = "email_risk" -> em
       [] c = "device_fingerprint_risk" -> dev
       [] c = "user_reputation" -> rep
       [] c = "hour" -> hr
       [] c = "bin_country" -> bin
       [] c = "ip_country" -> ipc
       [] c = "amount_mxn" -> amt
       [] c = "product_type" -> pt
       [] c = "latency_ms" -> lat
       [] c = "customer_txn_30d" -> txn
       [] c = "note" -> note
       [] c = "decision" -> dec
       [] OTHER -> Absent]

EmptyRow == [c \in Columns |-> Absent]

CbVals == {Bad, IntCell(1), IntCell(2)}
IpVals == {StrCell("low"), StrCell("medium"), StrCell("high"), StrCell("HIGH")}
EmailVals == {StrCell("low"), StrCell("medium"), StrCell("high"), StrCell("new_domain")}
DeviceVals == {StrCell("low"), StrCell("medium"), StrCell("high")}
RepVals == {Absent, StrCell("TRUSTED"), StrCell("recurrent"), StrCell("high_risk")}
HourVals == {Bad, IntCell(12), IntCell(22)}
BinVals == {StrCell("mx"), StrCell("US")}
IpCountryVals == {Absent, StrCell("MX")}
AmountVals == {Bad, IntCell(2500), IntCell(4000)}
ProductVals == {StrCell("Digital"), StrCell("unknown_x")}
LatencyVals == {Bad, IntCell(2500)}
TxnVals == {Bad, IntCell(3)}

NoResult == [decision |-> "", risk_score |-> 0, reasons |-> ""]

(* --------------------- assess_row on a single row --------------------- *)

\* the rows handed to assess_row directly: every combination of the field values
Init ==
  /\ env = [REJECT_AT |-> Unset, REVIEW_AT |-> Unset]
  /\ DEFAULT_CONFIG = DefaultConfig
  /\ config = NoConfig
  /\ table = <<>>
  /\ out = <<>>
  /\ row \in {MkRow(cb, ip, em, dev, rep, hr, bin, ipc, amt, pt, lat, txn, Absent, Absent) :
                cb \in CbVals, ip \in IpVals, em \in EmailVals, dev \in DeviceVals,
                rep \in RepVals, hr \in HourVals, bin \in BinVals, ipc \in IpCountryVals,
                amt \in AmountVals, pt \in ProductVals, lat \in LatencyVals, txn \in TxnVals}
  /\ result = NoResult
  /\ pc = "ready"

\* assess_row(row, DEFAULT_CONFIG)
Assess ==
  /\ pc = "ready"
  /\ result' = assess_row(row, DEFAULT_CONFIG)
  /\ pc' = "assessed"
  /\ UNCHANGED <<env, DEFAULT_CONFIG, config, table, out, row>>

Next == Assess

Spec == Init /\ [][Next]_vars

(* ------------------ importing the module, then run() ------------------ *)

MaxRows == 3

EnvVals == {Unset, EnvText("7"), EnvText("3"), EnvText("abc")}

\* a caller's own configuration: the default with the hard block at 3 chargebacks
CustomConfig == [given |-> TRUE, cfg |-> [DefaultConfig EXCEPT !.chargeback_hard_block = 3]]
ConfigArgs == {NoConfig, CustomConfig}

\* rows of an input file that has the columns chargeback_count, ip_risk,
\* email_risk, user_reputation, hour, customer_txn_30d and note
FileRow(cb, ip, em, rep, hr, txn, note) ==
  MkRow(cb, ip, em, Absent, rep, hr, Absent, Absent, Absent, Absent, Absent, txn, note, Absent)

FileRows ==
  { FileRow(IntCell(3), StrCell("high"), StrCell("low"), StrCell("new"), IntCell(12), IntCell(0), StrCell("a")),
    FileRow(IntCell(2), StrCell("HIGH"), StrCell("medium"), StrCell("new"), IntCell(23), IntCell(0), StrCell("b")),
    FileRow(IntCell(0), StrCell("medium"), StrCell("medium"), StrCell("trusted"), IntCell(12), IntCell(5), StrCell("c")),
    FileRow(IntCell(0), StrCell("high"), StrCell("high"), StrCell("high_risk"), Bad, IntCell(0), StrCell("d")) }

SeqsUpTo(S, n) == UNION {[1..k -> S] : k \in 0..n}

\* the same file with a column named decision already in it
WithDecisionColumn(df) == [k \in 1..Len(df) |-> [df[k] EXCEPT !["decision"] = StrCell("PENDING")]]

Tables == SeqsUpTo(FileRows, MaxRows) \cup {WithDecisionColumn(df) : df \in SeqsUpTo(FileRows, MaxRows)}

InitRun ==
  /\ table \in Tables
  /\ env \in [REJECT_AT : EnvVals, REVIEW_AT : EnvVals]
  /\ DEFAULT_CONFIG = DefaultConfig
  /\ config \in ConfigArgs
  /\ out = <<>>
  /\ row = EmptyRow
  /\ result = NoResult
  /\ pc = "import"

\* the module-level code of decision_engine.py
Load ==
  /\ pc = "import"
  /\ DEFAULT_CONFIG' = LoadOverrides(DEFAULT_CONFIG, env)
  /\ pc' = "loaded"
  /\ UNCHANGED <<env, config, table, out, row, result>>

\* run(input_csv, output_csv, config) on the frame read from input_csv
Run ==
  /\ pc = "loaded"
  /\ out' = run(table, config, DEFAULT_CONFIG)
  /\ pc' = "done"
  /\ UNCHANGED <<env, DEFAULT_CONFIG, config, table, row, result>>

NextRun == Load \/ Run

SpecRun == InitRun /\ [][NextRun]_vars

(* ======================= the checked properties ======================= *)

\* sub occurs in the text s
Contains(s, sub) ==
  \E k \in 1..(Len(s) - Len(sub) + 1) : SubSeq(s, k, k + Len(sub) - 1) = sub

\* the record's chargeback_count is a number >= n and its ip_risk is "high"
\* in some letter case
HardBlocked(r, n) ==
  /\ r["chargeback_count"].t = "int" /\ r["chargeback_count"].i >= n
  /\ r["ip_risk"].t = "str" /\ r["ip_risk"].s \in {"high", "High", "HIGH"}

\* the reputation tier of the record, lower-cased ("new" when the field is absent)
Tier(r) ==
  IF r["user_reputation"].t = "absent" THEN "new"
  ELSE IF r["user_reputation"].s \in {"trusted", "TRUSTED"} THEN "trusted"
  ELSE IF r["user_reputation"].s \in {"recurrent", "Recurrent"} THEN "recurrent"
  ELSE IF r["user_reputation"].s \in {"new", "NEW"} THEN "new"
  ELSE r["user_reputation"].s

\* C1: a record with chargeback_count >= 2 and ip_risk "high" in any letter
\* case is assessed, under the default configuration, as REJECTED with
\* risk_score 100 and the hard_block reason as its only reason, whatever its
\* other fields hold.
C1_HardBlockPrecedence ==
  (pc = "assessed" /\ HardBlocked(row, 2)) =>
     /\ result.decision = DECISION_REJECTED
     /\ result.risk_score = 100
     /\ Contains(result.reasons, "hard_block")
     /\ ~Contains(result.reasons, ";")
     /\ ~Contains(result.reasons, "(")

C1_Witness ==
  /\ pc = "assessed"
  /\ HardBlocked(row, 2)
  /\ row["ip_risk"].s = "HIGH"
  /\ row["hour"] = Bad
  /\ row["user_reputation"] = Absent
  /\ row["email_risk"].s = "high"
  /\ result.risk_score = 100

\* C2: the decision is REJECTED when the final score is >= reject_at,
\* otherwise IN_REVIEW when it is >= review_at, otherwise ACCEPTED (both
\* thresholds inclusive).
C2_InclusiveThresholds ==
  pc = "assessed" =>
     result.decision =
       IF result.risk_score >= DEFAULT_CONFIG.score_to_decision.reject_at THEN DECISION_REJECTED
       ELSE IF result.risk_score >= DEFAULT_CONFIG.score_to_decision.review_at THEN DECISION_IN_REVIEW
       ELSE DECISION_ACCEPTED

\* the three conditions of the frequency buffer, on a record that is not hard-blocked
BufferConditions(r, cfg) ==
  /\ Tier(r) \in {"recurrent", "trusted"}
  /\ r["customer_txn_30d"].t = "int" /\ r["customer_txn_30d"].i >= 3
  /\ PreBuffer(r, cfg).score > 0

\* C3: on a record that is not hard-blocked, the reason "frequency_buffer(-1)"
\* is present and the score is the pre-buffer score minus 1 exactly when the
\* reputation is recurrent or trusted, customer_txn_30d >= 3 and the
\* pre-buffer score is positive; otherwise the score is the pre-buffer score
\* and there is no frequency_buffer reason.
C3_FrequencyBufferGating ==
  (pc = "assessed" /\ ~HardBlocked(row, 2)) =>
     IF BufferConditions(row, DEFAULT_CONFIG)
     THEN /\ Contains(result.reasons, "frequency_buffer(-1)")
          /\ result.risk_score = PreBuffer(row, DEFAULT_CONFIG).score - 1
     ELSE /\ ~Contains(result.reasons, "frequency_buffer")
          /\ result.risk_score = PreBuffer(row, DEFAULT_CONFIG).score

C3_Witness ==
  /\ pc = "assessed"
  /\ ~HardBlocked(row, 2)
  /\ BufferConditions(row, DEFAULT_CONFIG)
  /\ PreBuffer(row, DEFAULT_CONFIG).score = 1
  /\ result.risk_score = 0
  /\ Contains(result.reasons, "frequency_buffer(-1)")

\* the amount threshold of the record's product type
ThresholdOf(r) ==
  IF r["product_type"].t = "absent" THEN 4000
  ELSE IF r["product_type"].s \in {"digital", "Digital"} THEN 2500
  ELSE IF r["product_type"].s \in {"physical", "PHYSICAL"} THEN 6000
  ELSE IF r["product_type"].s = "subscription" THEN 1500
  ELSE 4000

\* what the amount step adds to the score: the pre-buffer score less that of
\* the same record with no amount
AmountContribution(r, cfg) ==
  PreBuffer(r, cfg).score - PreBuffer([r EXCEPT !["amount_mxn"] = Absent], cfg).score

NumericFields == {"chargeback_count", "hour", "amount_mxn", "latency_ms", "customer_txn_30d"}

\* C5: a record in which a numeric field holds an unparseable value is
\* assessed as the otherwise-identical record in which that field is absent.
C5_UnparseableAsAbsent ==
  pc = "assessed" =>
     \A f \in NumericFields :
        row[f] = Bad => result = assess_row([row EXCEPT ![f] = Absent], DEFAULT_CONFIG)

\* raising a categorical risk signal: the tiers above a tier
TiersAbove(t) ==
  IF t = "low" THEN {"medium", "high"} ELSE IF t = "medium" THEN {"high"} ELSE {}

SignalTier(r, f) ==
  IF r[f].t = "absent" THEN "low"
  ELSE IF r[f].s \in {"high", "HIGH"} THEN "high"
  ELSE IF r[f].s \in {"medium", "Medium"} THEN "medium"
  ELSE r[f].s

BufferFired(res) == Contains(res.reasons, "frequency_buffer")

\* C8: under the default configuration, raising ip_risk, email_risk or
\* device_fingerprint_risk (low to medium or high, medium to high) in an
\* otherwise-fixed record never lowers the risk_score, when the frequency
\* buffer applies to neither record.
C8_MonotonicSignals ==
  pc = "assessed" =>
     \A f \in {"ip_risk", "email_risk", "device_fingerprint_risk"} :
        \A t \in TiersAbove(SignalTier(row, f)) :
           LET raised == assess_row([row EXCEPT ![f] = StrCell(t)], DEFAULT_CONFIG)
           IN (~BufferFired(result) /\ ~BufferFired(raised)) =>
                 raised.risk_score >= result.risk_score

C8_Witness ==
  /\ pc = "assessed"
  /\ row["ip_risk"] = StrCell("low")
  /\ row["device_fingerprint_risk"] = StrCell("medium")
  /\ ~BufferFired(result)
  /\ result.risk_score = 2
  /\ assess_row([row EXCEPT !["device_fingerprint_risk"] = StrCell("high")], DEFAULT_CONFIG).risk_score = 4

\* C10: under the default configuration a record that is not hard-blocked
\* scores between -2 and 22, so risk_score = 100 exactly when the hard block
\* fired, and a score lowered by the frequency buffer is not negative.
C10_ScoreRange ==
  pc = "assessed" =>
     /\ ~HardBlocked(row, 2) => (result.risk_score >= -2 /\ result.risk_score <= 22)
     /\ (result.risk_score = 100) <=> HardBlocked(row, 2)
     /\ BufferFired(result) => result.risk_score >= 0

C10_Witness ==
  /\ pc = "assessed"
  /\ ~HardBlocked(row, 2)
  /\ result.risk_score = 22

\* the value a boundary takes from its own environment variable: the integer
\* it spells, or the default when it is unset or spells no integer
OwnOverride(x, default) ==
  IF x.set /\ x.s = "7" THEN 7 ELSE IF x.set /\ x.s = "3" THEN 3 ELSE default

\* C6: after the module is loaded each boundary is the integer its own
\* variable spells, or its default (reject_at 10, review_at 4) when that
\* variable is unset or invalid, whatever the other variable holds.
C6_IndependentOverrides ==
  pc # "import" =>
     /\ DEFAULT_CONFIG.score_to_decision.reject_at = OwnOverride(env.REJECT_AT, 10)
     /\ DEFAULT_CONFIG.score_to_decision.review_at = OwnOverride(env.REVIEW_AT, 4)

\* the columns decision, risk_score and reasons of output row k hold
\* assess_row(input row k, the configuration of the run)
ResultsOfRow(k) ==
  LET res == assess_row(table[k], RunConfig(config, DEFAULT_CONFIG))
  IN /\ out[k]["decision"] = StrCell(res.decision)
     /\ out[k]["risk_score"] = IntCell(res.risk_score)
     /\ out[k]["reasons"] = StrCell(res.reasons)

\* C7 as stated: the output has the rows of the input in order, every column
\* of the input unchanged, and the three result columns of each row hold
\* assess_row of that row.
C7_EveryColumnUnchanged ==
  pc = "done" =>
     /\ Len(out) = Len(table)
     /\ \A k \in 1..Len(table) :
           /\ \A c \in Columns : table[k][c] # Absent => out[k][c] = table[k][c]
           /\ ResultsOfRow(k)

\* C7, amended: the output has the rows of the input in order, every column
\* of the input not named decision, risk_score or reasons unchanged, and the
\* three result columns of each row hold assess_row of that row alone.
C7_RunKeepsRowsAndOtherColumns ==
  pc = "done" =>
     /\ Len(out) = Len(table)
     /\ \A k \in 1..Len(table) :
           /\ \A c \in Columns \ ResultColumns : out[k][c] = table[k][c]
           /\ ResultsOfRow(k)

C7_Witness ==
  /\ pc = "done"
  /\ Len(table) >= 2
  /\ table[1] # table[2]
  /\ table[1]["decision"] = StrCell("PENDING")
  /\ table[1]["note"] = StrCell("c")
  /\ out[1]["note"] = StrCell("c")
  /\ out[1]["decision"] = StrCell(DECISION_ACCEPTED)
  /\ out[2]["risk_score"] = IntCell(100)

\* C9: the reasons of a hard-blocked record are the single entry
\* "hard_block:chargebacks>=N+ip_high", N being the configured
\* chargeback_hard_block.
C9_ReasonNamesThreshold ==
  pc = "done" =>
     \A k \in 1..Len(table) :
        LET n == RunConfig(config, DEFAULT_CONFIG).chargeback_hard_block
        IN HardBlocked(table[k], n) =>
              out[k]["reasons"] = StrCell("hard_block:chargebacks>=" \o ToString(n) \o "+ip_high")

====
